---- MODULE Spec2Model ----
(***************************************************************************)
(* A model of ROOTfileMerger: the Merge Orchestrator (mergeOutput.py) and  *)
(* the Job Descriptor Generator (jobScriptGenerator.py).                   *)
(*                                                                         *)
(* A file name is a sequence of one-character strings, a path is a         *)
(* sequence of names (its components), and the file system is the sequence *)
(* of its directories in the order os.walk visits them, each with the      *)
(* entries its listing returns.                                            *)
(***************************************************************************)
EXTENDS Integers, Sequences, FiniteSets, TLC

VARIABLES
    fsys,              \* the directories on disk, in os.walk order
    base_dir,          \* RootFileMerger.base_dir
    mergeFilePattern,  \* RootFileMerger.mergeFilePattern
    output_file_name,  \* RootFileMerger.output_file_name
    file_dict,         \* RootFileMerger.file_dict: insertion-ordered <<key, value>> pairs
    all_files,         \* RootFileMerger.all_files
    log,               \* the records handed to the "merger" logger, in order
    pc,                \* the position of main() (or of the generator's main())
    calls,             \* the RootFileMerger methods main() has invoked, in order
    estimated_size,    \* main's local estimated_size
    unreadable,        \* the paths whose os.path.getsize raised during the estimate
    engine,            \* the calls received by the TFileMerger, in order
    merge_result,      \* what merge_files returned: "none" before, then "True"/"False"
    compare_result,    \* what compare_sizes returned
    gather_calls,      \* how many times gather_files ran on this instance
    script,            \* the lines written to merge_Locally.sh
    subfile,           \* the lines written to merge_using_condor.sub
    mode,              \* how the generated jobs are run: "none", "local" or "condor"
    jobs               \* the orchestrator jobs started from the generated artifact

vars == <<fsys, base_dir, mergeFilePattern, output_file_name, file_dict, all_files,
          log, pc, calls, estimated_size, unreadable, engine, merge_result,
          compare_result, gather_calls, script, subfile, mode, jobs>>

orchVars == <<base_dir, mergeFilePattern, output_file_name, file_dict, all_files,
              log, calls, estimated_size, unreadable, engine, merge_result,
              compare_result, gather_calls>>

genVars == <<script, subfile, mode, jobs>>

----------------------------------------------------------------------------
(* Bounds of the model.                                                    *)

\* The most directories below (and including) the orchestrator's base directory.
MaxDirs == 2

\* The most os.path.getsize failures during one estimate pass.
MaxStatFail == 1

\* The most gather_files calls on one RootFileMerger instance.
MaxGather == 2

\* The most entries of the storage root when the generator lists it.
MaxEntries == 3

----------------------------------------------------------------------------
(* Strings: str.lower, str.endswith, the "in" substring test, str.split.   *)

\* str.lower() on one character of the alphabet the model's names use.
lower_char(c) ==
    CASE c = "O" -> "o"
      [] c = "U" -> "u"
      [] c = "T" -> "t"
      [] c = "R" -> "r"
      [] OTHER -> c

\* str.lower()
lower(s) == [i \in 1..Len(s) |-> lower_char(s[i])]

\* s.endswith(suffix)
endswith(s, suffix) ==
    /\ Len(s) >= Len(suffix)
    /\ SubSeq(s, Len(s) - Len(suffix) + 1, Len(s)) = suffix

\* Python's  sub in s  for strings.
str_in(sub, s) ==
    \E i \in 0..(Len(s) - Len(sub)) : SubSeq(s, i + 1, i + Len(sub)) = sub

\* pattern.split('*')[0]: the text before the first '*', the whole text without one.
split_star_0(p) ==
    LET stars == {i \in 1..Len(p) : p[i] = "*"}
    IN  IF stars = {} THEN p
        ELSE LET first == CHOOSE i \in stars : \A j \in stars : i <= j
             IN  SubSeq(p, 1, first - 1)

\* The literal '.root' of gather_files.
DOT_ROOT == <<".", "r", "o", "o", "t">>

----------------------------------------------------------------------------
(* Paths and the file system.                                              *)

\* os.path.join(root, name)
os_path_join(root, name) == Append(root, name)

IsPrefix(p, q) == Len(p) <= Len(q) /\ SubSeq(q, 1, Len(p)) = p

Parent(path) == SubSeq(path, 1, Len(path) - 1)

Basename(path) == path[Len(path)]

Range(s) == {s[i] : i \in 1..Len(s)}

RECURSIVE Concat(_)
Concat(ss) == IF ss = <<>> THEN <<>> ELSE Head(ss) \o Concat(Tail(ss))

RECURSIVE SumSeq(_)
SumSeq(s) == IF s = <<>> THEN 0 ELSE Head(s) + SumSeq(Tail(s))

\* The directory records os.walk(base) yields, top-down.
os_walk(fs, base) == SelectSeq(fs, LAMBDA d : IsPrefix(base, d.root))

\* The "files" of one os.walk triple: the names of the entries that are not directories.
walk_files(d) ==
    LET fe == SelectSeq(d.entries, LAMBDA e : ~e.isdir)
    IN  [i \in 1..Len(fe) |-> fe[i].name]

\* The entry a path names, as a set of at most one element.
EntriesAt(fs, path) ==
    IF path = <<>> THEN {}
    ELSE {e \in UNION {Range(fs[i].entries) : i \in {j \in 1..Len(fs) : fs[j].root = Parent(path)}} :
            e.name = Basename(path)}

\* os.path.getsize(path): raises OSError for a path in bad (the stat failed) or
\* one that names nothing, else returns the entry's size.
os_path_getsize(fs, bad, path) ==
    IF path \in bad \/ EntriesAt(fs, path) = {}
    THEN [raised |-> TRUE, value |-> 0]
    ELSE [raised |-> FALSE, value |-> (CHOOSE e \in EntriesAt(fs, path) : TRUE).size]

\* Opening path for writing (TFile RECREATE) and leaving size bytes in it: the
\* file is created or replaced, unless the path is a directory or its parent
\* does not exist.
WriteFile(fs, path, size) ==
    LET new == [name |-> Basename(path), isdir |-> FALSE, size |-> size]
        put(d) ==
            IF d.root # Parent(path) THEN d
            ELSE IF \E e \in Range(d.entries) : e.name = new.name /\ e.isdir THEN d
            ELSE IF \E e \in Range(d.entries) : e.name = new.name
                 THEN [d EXCEPT !.entries =
                        [i \in 1..Len(d.entries) |->
                            IF d.entries[i].name = new.name THEN new ELSE d.entries[i]]]
                 ELSE [d EXCEPT !.entries = Append(d.entries, new)]
    IN  [i \in 1..Len(fs) |-> put(fs[i])]

----------------------------------------------------------------------------
(* Number formatting: f"{x/1024:.2f}".                                     *)

KB == 1024

Abs(n) == IF n < 0 THEN -n ELSE n

\* round-half-to-even of num/den, for num >= 0 and den > 0: what '.2f' does
\* with a value that is exact in binary (a division by a power of two is).
RoundHalfEven(num, den) ==
    LET q == num \div den
        r == num % den
    IN  IF 2 * r > den \/ (2 * r = den /\ q % 2 = 1) THEN q + 1 ELSE q

\* f"{n/den:.2f}": the sign printed and the hundredths printed after it
\* (a negative value that rounds to zero prints as -0.00).
fmt_2f(n, den) == [neg |-> n < 0, cents |-> RoundHalfEven(Abs(n) * 100, den)]

----------------------------------------------------------------------------
(* RootFileMerger                                                          *)

\* The line logged before a block (lines 39, 58, 90) and the one after it (41, 61).
SEPARATOR == "\n\n-------------------------------------------------------------------------\n"

SEPARATOR_END == "\n-------------------------------------------------------------------------\n\n"

\* Assigning d[key] = value on a Python dict: a new key goes last, a key that
\* is present keeps its place.
dict_set(d, key, value) ==
    IF \E i \in 1..Len(d) : d[i][1] = key
    THEN [i \in 1..Len(d) |-> IF d[i][1] = key THEN <<key, value>> ELSE d[i]]
    ELSE Append(d, <<key, value>>)

\* name_matches with the prefix required at the start of the name, as a glob would.
name_matches_glob(f, pattern) ==
    /\ endswith(lower(f), DOT_ROOT)
    /\ LET pre == lower(split_star_0(pattern))
       IN  Len(pre) <= Len(f) /\ SubSeq(lower(f), 1, Len(pre)) = pre

\* The condition of the comprehension of gather_files on one file name.
name_matches(f, pattern) ==
    /\ endswith(lower(f), DOT_ROOT)
    /\ str_in(lower(split_star_0(pattern)), lower(f))

\* matching_files of one os.walk triple.
matching_files(d, pattern) ==
    LET sel == SelectSeq(walk_files(d), LAMBDA f : name_matches(f, pattern))
    IN  [i \in 1..Len(sel) |-> os_path_join(d.root, sel[i])]

\* gather_one without the  if matching_files:  test.
gather_one_keeps_empty(self, d) ==
    LET m == matching_files(d, self.mergeFilePattern)
    IN  [self EXCEPT
            !.file_dict = dict_set(self.file_dict, d.root, m),
            !.all_files = self.all_files \o m]

\* The body of the loop of gather_files for one os.walk triple.
gather_one(self, d) ==
    LET m == matching_files(d, self.mergeFilePattern)
    IN  IF m = <<>> THEN self
        ELSE [self EXCEPT
                !.file_dict = dict_set(self.file_dict, d.root, m),
                !.all_files = self.all_files \o m,
                !.log = self.log \o
                    << [msg |-> SEPARATOR, args |-> <<>>],
                       [msg |-> "There are {} .root files in directory '{}'.",
                        args |-> <<Len(m), d.root>>],
                       [msg |-> SEPARATOR_END, args |-> <<>>] >>]

RECURSIVE gather_loop(_, _)
gather_loop(self, walk) ==
    IF walk = <<>> THEN self
    ELSE gather_loop(gather_one(self, Head(walk)), Tail(walk))

\* RootFileMerger.gather_files
gather_files(self, fs) == gather_loop(self, os_walk(fs, self.base_dir))

\* estimate_one with  total_size = size  in place of  total_size += size.
estimate_one_assigns(acc, fs, bad, file_path) ==
    LET st == os_path_getsize(fs, bad, file_path)
    IN  IF st.raised THEN acc ELSE [acc EXCEPT !.total_size = st.value]

\* The body of the loop of estimate_total_size for one file path.
estimate_one(acc, fs, bad, file_path) ==
    LET st == os_path_getsize(fs, bad, file_path)
    IN  IF st.raised
        THEN [acc EXCEPT !.log = Append(acc.log,
                [msg |-> "Failed to get size for file '{}': {}", args |-> <<file_path>>])]
        ELSE [total_size |-> acc.total_size + st.value,
              log |-> acc.log \o
                << [msg |-> "The size of file '{}' is {:.2f} KB.",
                    args |-> <<file_path, fmt_2f(st.value, KB)>>],
                   [msg |-> "The size of file '{}' is {:.2f} GB.",
                    args |-> <<file_path, fmt_2f(st.value, KB * KB * KB)>>] >>]

RECURSIVE estimate_loop_aborts(_, _, _, _)
\* estimate_loop with the try/except around the loop: the first failure ends it.
estimate_loop_aborts(acc, fs, bad, files) ==
    IF files = <<>> THEN acc
    ELSE IF os_path_getsize(fs, bad, Head(files)).raised
         THEN estimate_one(acc, fs, bad, Head(files))
         ELSE estimate_loop_aborts(estimate_one(acc, fs, bad, Head(files)), fs, bad, Tail(files))

RECURSIVE estimate_loop(_, _, _, _)
estimate_loop(acc, fs, bad, files) ==
    IF files = <<>> THEN acc
    ELSE estimate_loop(estimate_one(acc, fs, bad, Head(files)), fs, bad, Tail(files))

\* RootFileMerger.estimate_total_size: the value returned and the log after it.
estimate_total_size(files, lg, fs, bad) ==
    LET acc == estimate_loop([total_size |-> 0, log |-> lg], fs, bad, files)
    IN  [total_size |-> acc.total_size,
         log |-> acc.log \o
            << [msg |-> SEPARATOR, args |-> <<>>],
               [msg |-> "Estimated total size before merging is {:.2f} KB.",
                args |-> <<fmt_2f(acc.total_size, KB)>>],
               [msg |-> "Estimated total size before merging is {:.2f} GB.",
                args |-> <<fmt_2f(acc.total_size, KB * KB * KB)>>],
               [msg |-> SEPARATOR_END, args |-> <<>>] >>]

RECURSIVE add_files(_, _)
\* The loop of merge_files: one AddFile and one log record per path.
add_files(acc, files) ==
    IF files = <<>> THEN acc
    ELSE add_files(
            [engine |-> Append(acc.engine, [op |-> "AddFile", arg |-> Head(files)]),
             log |-> Append(acc.log, [msg |-> "Added file '{}' to the merge list.",
                                      args |-> <<Head(files)>>])],
            Tail(files))

\* merge_return that ignores the engine's answer.
merge_return_ignores(success) == "True"

\* What merge_files returns for the engine's answer.
merge_return(success) == IF ~success THEN "False" ELSE "True"

\* RootFileMerger.merge_files, given the engine's answer to Merge().
merge_files(files, out, lg, success) ==
    LET start == [engine |-> << [op |-> "TFileMerger", arg |-> <<"False">>],
                                [op |-> "SetPrintLevel", arg |-> <<"0">>],
                                [op |-> "OutputFile", arg |-> out] >>,
                  log |-> lg]
        added == add_files(start, files)
    IN  [engine |-> Append(added.engine, [op |-> "Merge", arg |-> <<>>, ret |-> success]),
         log |-> added.log \o
            << [msg |-> "Starting the merge process.", args |-> <<>>],
               [msg |-> IF ~success THEN "The merge process failed!"
                        ELSE "The merge process completed successfully.",
                args |-> <<>>] >>,
         result |-> merge_return(success)]

\* size_diff with its operands exchanged.
size_diff_reversed(final_size, estimated) == estimated - final_size

\* The difference compare_sizes computes.
size_diff(final_size, estimated) == final_size - estimated

\* RootFileMerger.compare_sizes: the value returned and the log after it.
compare_sizes(out, estimated, lg, fs) ==
    LET st == os_path_getsize(fs, {}, out)
        lg1 == Append(lg, [msg |-> SEPARATOR, args |-> <<>>])
    IN  IF st.raised
        THEN [ret |-> [none |-> TRUE, value |-> 0],
              log |-> Append(lg1,
                [msg |-> "Failed to obtain the size of the merged file: {}", args |-> <<out>>])]
        ELSE [ret |-> [none |-> FALSE, value |-> st.value],
              log |-> lg1 \o
                << [msg |-> "The merged file '{}' has a size of {:.2f} KB.",
                    args |-> <<out, fmt_2f(st.value, KB)>>],
                   [msg |-> "The difference between the estimated and merged file size is {:.2f} KB.",
                    args |-> <<fmt_2f(size_diff(st.value, estimated), KB)>>] >>]

----------------------------------------------------------------------------
(* The inputs of the orchestrator: the tree below --dir, --pat and --out.  *)

\* File names.
out_1_root == <<"o", "u", "t", "_", "1", ".", "r", "o", "o", "t">>
out_2_root == <<"o", "u", "t", "_", "2", ".", "r", "o", "o", "t">>
notout_1_root == <<"n", "o", "t", "o", "u", "t", "_", "1", ".", "r", "o", "o", "t">>
OUT_3_ROOT == <<"O", "U", "T", "_", "3", ".", "R", "O", "O", "T">>
skip_dat == <<"s", "k", "i", "p", ".", "d", "a", "t">>
out_1_root_bak == <<"o", "u", "t", "_", "1", ".", "r", "o", "o", "t", ".", "b", "a", "k">>

File(name, size) == [name |-> name, isdir |-> FALSE, size |-> size]

Dir(name) == [name |-> name, isdir |-> TRUE, size |-> 0]

\* The plain files a directory may hold, in the order its listing returns them.
Listings ==
    { <<>>,
      <<File(out_1_root, 1000), File(out_2_root, 1000), File(skip_dat, 500)>>,
      <<File(notout_1_root, 128), File(out_1_root_bak, 700)>>,
      <<File(OUT_3_ROOT, 0), File(out_1_root, 300)>> }

\* The values of --pat.
Patterns ==
    { <<"o", "u", "t", "_", "*", ".", "r", "o", "o", "t">>,
      <<"*", ".", "r", "o", "o", "t">>,
      <<"O", "U", "T", "_", "1", ".", "r", "o", "o", "t">> }

\* The directory that holds the base directory and receives the merged file.
TOP == <<<<"e", "o", "s">>>>

\* The base directory (--dir).
BASE == Append(TOP, <<"d">>)

\* The names of the directories below the base directory; the first one has a
\* name that passes the file-name test.
SubdirNames ==
    << <<"o", "u", "t", "_", "d", ".", "r", "o", "o", "t">>,
       <<"b">>,
       <<"c">> >>

\* The values of --out: <subdir>.root beside the base directory.
OutputNames == { Append(TOP, <<"d", ".", "r", "o", "o", "t">>) }

\* The sizes the merge engine may leave in the output file.
OutSizes == {1900, 2128}

\* The wall-clock seconds a run may take.
ElapsedSeconds == {125}

RECURSIVE AncestorsOrSelf(_, _)
AncestorsOrSelf(par, k) == IF k = 1 THEN {1} ELSE {k} \cup AncestorsOrSelf(par, par[k])

\* The parent of each directory but the first, such that 1..n is a top-down walk.
TreeShapes(n) ==
    {par \in [2..n -> 1..n] :
        \A k \in 2..n : par[k] < k /\ (k > 2 => par[k] \in AncestorsOrSelf(par, k - 1))}

RECURSIVE DirPath(_, _)
DirPath(par, k) ==
    IF k = 1 THEN BASE ELSE Append(DirPath(par, par[k]), SubdirNames[k - 1])

\* The tree of n directories of shape par whose k-th directory holds the plain
\* files lst[k], below TOP.
Tree(n, par, lst) ==
    LET kids(k) == SelectSeq([c \in 1..n |-> c], LAMBDA c : c > 1 /\ par[c] = k)
        rec(k) == [root |-> DirPath(par, k),
                   entries |-> lst[k] \o
                       [i \in 1..Len(kids(k)) |-> Dir(SubdirNames[kids(k)[i] - 1])]]
    IN  << [root |-> TOP, entries |-> <<Dir(Basename(BASE))>>] >>
            \o [k \in 1..n |-> rec(k)]

OrchTrees ==
    UNION { {Tree(n, par, lst) : par \in TreeShapes(n), lst \in [1..n -> Listings]}
            : n \in 1..MaxDirs }

NoGen ==
    /\ script = <<>>
    /\ subfile = <<>>
    /\ mode = "none"
    /\ jobs = <<>>

\* RootFileMerger.__init__, after main() parsed its arguments and logged its
\* first line.
Constructed ==
    /\ fsys \in OrchTrees
    /\ base_dir = BASE
    /\ mergeFilePattern \in Patterns
    /\ output_file_name \in OutputNames
    /\ file_dict = <<>>
    /\ all_files = <<>>
    /\ log = << [msg |-> "Collecting .root files from subdirectories.", args |-> <<>>] >>
    /\ calls = <<>>
    /\ estimated_size = 0
    /\ unreadable = {}
    /\ engine = <<>>
    /\ merge_result = "none"
    /\ compare_result = [none |-> TRUE, value |-> 0]
    /\ gather_calls = 0

Init ==
    /\ Constructed
    /\ pc = "gather"
    /\ NoGen

----------------------------------------------------------------------------
(* main() of mergeOutput.py, one action per statement of lines 128-141.    *)

Self == [base_dir |-> base_dir, mergeFilePattern |-> mergeFilePattern,
         file_dict |-> file_dict, all_files |-> all_files, log |-> log]

\* The sets of paths whose stat may fail during one estimate pass.
StatFailures(files) == {bad \in SUBSET Range(files) : Cardinality(bad) <= MaxStatFail}

\* What the engine leaves at the output path.
EngineWrites == {[wrote |-> FALSE, size |-> 0]} \cup {[wrote |-> TRUE, size |-> s] : s \in OutSizes}

\* line 128
main_gather_files ==
    /\ pc = "gather"
    /\ LET r == gather_files(Self, fsys)
       IN  /\ file_dict' = r.file_dict
           /\ all_files' = r.all_files
           /\ log' = r.log
    /\ gather_calls' = gather_calls + 1
    /\ calls' = Append(calls, "gather_files")
    /\ pc' = "estimate"
    /\ UNCHANGED <<fsys, base_dir, mergeFilePattern, output_file_name, estimated_size,
                   unreadable, engine, merge_result, compare_result>>
    /\ UNCHANGED genVars

\* line 129
main_estimate_total_size ==
    /\ pc = "estimate"
    /\ \E bad \in StatFailures(all_files) :
         LET r == estimate_total_size(all_files, log, fsys, bad)
         IN  /\ estimated_size' = r.total_size
             /\ log' = r.log
             /\ unreadable' = bad
    /\ calls' = Append(calls, "estimate_total_size")
    /\ pc' = "merge"
    /\ UNCHANGED <<fsys, base_dir, mergeFilePattern, output_file_name, file_dict,
                   all_files, engine, merge_result, compare_result, gather_calls>>
    /\ UNCHANGED genVars

\* main_branch without the else: compare_sizes follows merge_files in any case.
main_branch_unconditional(result) == "compare"

\* The branch main() takes on what merge_files returned (lines 130-133).
main_branch(result) == IF result = "True" THEN "compare" ELSE "failed"

\* line 130
main_merge_files ==
    /\ pc = "merge"
    /\ \E success \in BOOLEAN, w \in EngineWrites :
         LET r == merge_files(all_files, output_file_name, log, success)
         IN  /\ engine' = r.engine
             /\ log' = r.log
             /\ merge_result' = r.result
             /\ pc' = main_branch(r.result)
             /\ fsys' = IF w.wrote THEN WriteFile(fsys, output_file_name, w.size) ELSE fsys
    /\ calls' = Append(calls, "merge_files")
    /\ UNCHANGED <<base_dir, mergeFilePattern, output_file_name, file_dict, all_files,
                   estimated_size, unreadable, compare_result, gather_calls>>
    /\ UNCHANGED genVars

\* line 131
main_compare_sizes ==
    /\ pc = "compare"
    /\ LET r == compare_sizes(output_file_name, estimated_size, log, fsys)
       IN  /\ compare_result' = r.ret
           /\ log' = r.log
    /\ calls' = Append(calls, "compare_sizes")
    /\ pc' = "report"
    /\ UNCHANGED <<fsys, base_dir, mergeFilePattern, output_file_name, file_dict,
                   all_files, estimated_size, unreadable, engine, merge_result, gather_calls>>
    /\ UNCHANGED genVars

\* line 133
main_merge_failed ==
    /\ pc = "failed"
    /\ log' = Append(log, [msg |-> "The overall merge process failed.", args |-> <<>>])
    /\ pc' = "report"
    /\ UNCHANGED <<fsys, base_dir, mergeFilePattern, output_file_name, file_dict,
                   all_files, calls, estimated_size, unreadable, engine, merge_result,
                   compare_result, gather_calls>>
    /\ UNCHANGED genVars

\* lines 135-139
main_report ==
    /\ pc = "report"
    /\ \E elapsed_time \in ElapsedSeconds :
         log' = Append(log,
            [msg |-> "The merge job completed in {:.2f} seconds ({} minutes and {:.2f} seconds).",
             args |-> <<elapsed_time, elapsed_time \div 60, elapsed_time % 60>>])
    /\ calls' = Append(calls, "report")
    /\ pc' = "line141"
    /\ UNCHANGED <<fsys, base_dir, mergeFilePattern, output_file_name, file_dict,
                   all_files, estimated_size, unreadable, engine, merge_result,
                   compare_result, gather_calls>>
    /\ UNCHANGED genVars

\* line 141: main() has no name "self"; evaluating self.log raises NameError,
\* which nothing catches.
main_line141 ==
    /\ pc = "line141"
    /\ pc' = "NameError"
    /\ UNCHANGED <<fsys, orchVars>>
    /\ UNCHANGED genVars

Next ==
    \/ main_gather_files
    \/ main_estimate_total_size
    \/ main_merge_files
    \/ main_compare_sizes
    \/ main_merge_failed
    \/ main_report
    \/ main_line141

Spec == Init /\ [][Next]_vars

----------------------------------------------------------------------------
(* RootFileMerger used as an object: its methods called in any order.      *)

InitAPI ==
    /\ Constructed
    /\ pc = "api"
    /\ NoGen

\* merger_instance.gather_files(), possibly not for the first time.
api_gather_files ==
    /\ pc = "api"
    /\ gather_calls < MaxGather
    /\ LET r == gather_files(Self, fsys)
       IN  /\ file_dict' = r.file_dict
           /\ all_files' = r.all_files
           /\ log' = r.log
    /\ gather_calls' = gather_calls + 1
    /\ calls' = Append(calls, "gather_files")
    /\ UNCHANGED <<fsys, base_dir, mergeFilePattern, output_file_name, estimated_size,
                   unreadable, engine, merge_result, compare_result, pc>>
    /\ UNCHANGED genVars

\* merger_instance.estimate_total_size(), after any number of gather_files calls.
api_estimate_total_size ==
    /\ pc = "api"
    /\ Len(calls) <= MaxGather
    /\ \E bad \in StatFailures(all_files) :
         LET r == estimate_total_size(all_files, log, fsys, bad)
         IN  /\ estimated_size' = r.total_size
             /\ log' = r.log
             /\ unreadable' = bad
    /\ calls' = Append(calls, "estimate_total_size")
    /\ pc' = "estimated"
    /\ UNCHANGED <<fsys, base_dir, mergeFilePattern, output_file_name, file_dict,
                   all_files, engine, merge_result, compare_result, gather_calls>>
    /\ UNCHANGED genVars

NextAPI ==
    \/ api_gather_files
    \/ api_estimate_total_size

SpecAPI == InitAPI /\ [][NextAPI]_vars

----------------------------------------------------------------------------
(* jobScriptGenerator.py                                                   *)

\* The names of the entries a storage root may hold.
dir_A == <<"A">>
dir_B == <<"B">>
dir_A_root == <<"A", ".", "r", "o", "o", "t">>
B_root == <<"B", ".", "r", "o", "o", "t">>

RootEntries ==
    { Dir(dir_A), Dir(dir_B), Dir(dir_A_root), File(B_root, 50) }

\* What each subdirectory of the storage root holds.
SubdirContents(name) ==
    IF name = dir_A THEN <<File(out_1_root, 1000), File(out_2_root, 1000)>>
    ELSE IF name = dir_B THEN <<File(notout_1_root, 128), File(skip_dat, 500)>>
    ELSE <<File(OUT_3_ROOT, 0)>>

\* storage_path of main(), and its mergeFilePattern.
storage_path == TOP

GEN_PATTERN == <<"o", "u", "t", "_", "*", ".", "r", "o", "o", "t">>

\* The listings os.listdir(storage_path) may return: up to MaxEntries entries
\* of distinct names, in any order.
RootListings ==
    UNION { {l \in [1..n -> RootEntries] : \A i, j \in 1..n : i # j => l[i] # l[j]}
            : n \in 0..MaxEntries }

\* The storage root with listing l, followed by its subdirectories.
GenTree(l) ==
    LET ds == SelectSeq(l, LAMBDA e : e.isdir)
    IN  << [root |-> storage_path, entries |-> l] >>
            \o [i \in 1..Len(ds) |->
                    [root |-> os_path_join(storage_path, ds[i].name),
                     entries |-> SubdirContents(ds[i].name)]]

GenTrees == {GenTree(l) : l \in RootListings}

\* os.listdir(path): the entries of the directory, in listing order.
os_listdir(fs, path) ==
    LET ds == SelectSeq(fs, LAMBDA d : d.root = path)
    IN  IF ds = <<>> THEN <<>> ELSE ds[1].entries

\* list_subdirs without the os.path.isdir test.
list_subdirs_all_entries(fs, path) ==
    LET es == os_listdir(fs, path)
    IN  [i \in 1..Len(es) |-> es[i].name]

\* [d for d in os.listdir(storage_path) if os.path.isdir(os.path.join(storage_path, d))]
list_subdirs(fs, path) ==
    LET es == SelectSeq(os_listdir(fs, path), LAMBDA e : e.isdir)
    IN  [i \in 1..Len(es) |-> es[i].name]

\* The shell variable the local script sets and uses.
MERGE_DIR == <<"$", "{", "MERGE_DIR", "}">>

ROOT_SUFFIX == <<".", "r", "o", "o", "t">>

\* out_path with one output name for every subdirectory.
out_path_shared(dir_prefix, subdir) == Append(dir_prefix, <<"m", "e", "r", "g", "e", "d">> \o ROOT_SUFFIX)

\* The --out argument both generators give subdir: <subdir>.root beside it.
out_path(dir_prefix, subdir) == Append(dir_prefix, subdir \o ROOT_SUFFIX)

\* The three lines generate_local_merge_script appends for one subdirectory.
local_lines(subdir, pattern) ==
    << [text |-> "echo \"Processing directory: {}\"", args |-> <<subdir>>],
       [text |-> "python3 -u mergeOutput.py --dir \"{}\" --pat {} --out \"{}\"",
        args |-> <<Append(<<MERGE_DIR>>, subdir), pattern, out_path(<<MERGE_DIR>>, subdir)>>],
       [text |-> "", args |-> <<>>] >>

\* generate_local_merge_script: the lines written to scriptForMerge.
generate_local_merge_script(fs, path, pattern) ==
    LET subdirs == list_subdirs(fs, path)
    IN  << [text |-> "#!/bin/bash", args |-> <<>>],
           [text |-> "MERGE_DIR=\"{}\"", args |-> <<path>>],
           [text |-> "echo -e \"  -- merger script -- > Set ntuple path [ ${MERGE_DIR} ]\"",
            args |-> <<>>],
           [text |-> "", args |-> <<>>] >>
        \o Concat([i \in 1..Len(subdirs) |-> local_lines(subdirs[i], pattern)])
        \o << [text |-> "echo \"All merge jobs completed.\"", args |-> <<>>] >>

\* The six lines generate_condorMerge_submission_file appends for one subdirectory.
condor_lines(path, subdir, pattern) ==
    LET full_dir == os_path_join(path, subdir)
    IN  << [text |-> "arguments = --dir {} --pat {} --out {}",
            args |-> <<full_dir, pattern, out_path(path, subdir)>>],
           [text |-> "Output          = merge_condor_logs/{}_$(Cluster)_$(Process).out",
            args |-> <<subdir>>],
           [text |-> "Error           = merge_condor_logs/{}_$(Cluster)_$(Process).err",
            args |-> <<subdir>>],
           [text |-> "Log             = merge_condor_logs/{}_$(Cluster).log",
            args |-> <<subdir>>],
           [text |-> "queue", args |-> <<>>],
           [text |-> "", args |-> <<>>] >>

\* generate_condorMerge_submission_file: the lines written to scriptForMerge.
generate_condorMerge_submission_file(fs, path, pattern) ==
    LET subdirs == list_subdirs(fs, path)
    IN  << [text |-> "Executable      = mergeOutput.py", args |-> <<>>],
           [text |-> "getenv          = True", args |-> <<>>],
           [text |-> "should_transfer_files = No", args |-> <<>>],
           [text |-> "+JobFlavour      = \"tomorrow\"", args |-> <<>>],
           [text |-> "", args |-> <<>>] >>
        \o Concat([i \in 1..Len(subdirs) |-> condor_lines(path, subdirs[i], pattern)])

INVOKE_TEXT == "python3 -u mergeOutput.py --dir \"{}\" --pat {} --out \"{}\""

ARGUMENTS_TEXT == "arguments = --dir {} --pat {} --out {}"

\* A path of the local script after the shell replaces ${MERGE_DIR} by the
\* value line 2 of the script gave it.
shell_expand(path, value) ==
    IF path # <<>> /\ Head(path) = MERGE_DIR THEN value \o Tail(path) ELSE path

\* One orchestrator process, not yet started, for the arguments of one line.
NewJob(dir, pattern, out) ==
    [dir |-> dir, pat |-> pattern, out |-> out, pc |-> "queued",
     all_files |-> <<>>, estimated |-> 0, wrote |-> [wrote |-> FALSE, size |-> 0],
     result |-> "none", final |-> [none |-> TRUE, value |-> 0]]

\* The orchestrator processes the local script starts, in the order of its lines.
script_jobs(lines) ==
    LET value == lines[2].args[1]
        inv == SelectSeq(lines, LAMBDA l : l.text = INVOKE_TEXT)
    IN  [i \in 1..Len(inv) |->
            NewJob(shell_expand(inv[i].args[1], value), inv[i].args[2],
                   shell_expand(inv[i].args[3], value))]

\* The orchestrator processes the scheduler starts, one per queued stanza.
condor_jobs(lines) ==
    LET arg == SelectSeq(lines, LAMBDA l : l.text = ARGUMENTS_TEXT)
    IN  [i \in 1..Len(arg) |-> NewJob(arg[i].args[1], arg[i].args[2], arg[i].args[3])]

InitGen ==
    /\ fsys \in GenTrees
    /\ pc = "gen"
    /\ script = <<>>
    /\ subfile = <<>>
    /\ mode = "none"
    /\ jobs = <<>>
    /\ base_dir = BASE
    /\ mergeFilePattern = GEN_PATTERN
    /\ output_file_name = <<>>
    /\ file_dict = <<>>
    /\ all_files = <<>>
    /\ log = <<>>
    /\ calls = <<>>
    /\ estimated_size = 0
    /\ unreadable = {}
    /\ engine = <<>>
    /\ merge_result = "none"
    /\ compare_result = [none |-> TRUE, value |-> 0]
    /\ gather_calls = 0

\* main() with --mode local.
gen_main_local ==
    /\ pc = "gen"
    /\ script' = generate_local_merge_script(fsys, storage_path, GEN_PATTERN)
    /\ mode' = "local"
    /\ pc' = "generated"
    /\ UNCHANGED <<fsys, subfile, jobs, orchVars>>

\* main() with --mode condor.
gen_main_condor ==
    /\ pc = "gen"
    /\ subfile' = generate_condorMerge_submission_file(fsys, storage_path, GEN_PATTERN)
    /\ mode' = "condor"
    /\ pc' = "generated"
    /\ UNCHANGED <<fsys, script, jobs, orchVars>>

\* The generated script is run, or the generated file is submitted.
run_generated ==
    /\ pc = "generated"
    /\ jobs' = IF mode = "local" THEN script_jobs(script) ELSE condor_jobs(subfile)
    /\ pc' = "running"
    /\ UNCHANGED <<fsys, script, subfile, mode, orchVars>>

\* The local script runs its commands one after the other; the scheduler runs
\* its jobs in parallel.
MayRun(j) ==
    /\ pc = "running"
    /\ j \in 1..Len(jobs)
    /\ mode = "local" => \A k \in 1..(j - 1) : jobs[k].pc = "done"

JobSelf(j) == [base_dir |-> jobs[j].dir, mergeFilePattern |-> jobs[j].pat,
               file_dict |-> <<>>, all_files |-> <<>>, log |-> <<>>]

\* Job j: gather_files (line 128).
job_gather_files(j) ==
    /\ MayRun(j)
    /\ jobs[j].pc = "queued"
    /\ jobs' = [jobs EXCEPT ![j].all_files = gather_files(JobSelf(j), fsys).all_files,
                            ![j].pc = "estimate"]
    /\ UNCHANGED <<fsys, pc, script, subfile, mode, orchVars>>

\* Job j: estimate_total_size (line 129).
job_estimate_total_size(j) ==
    /\ MayRun(j)
    /\ jobs[j].pc = "estimate"
    /\ jobs' = [jobs EXCEPT
                  ![j].estimated =
                      estimate_total_size(jobs[j].all_files, <<>>, fsys, {}).total_size,
                  ![j].pc = "merge"]
    /\ UNCHANGED <<fsys, pc, script, subfile, mode, orchVars>>

\* Job j: merge_files (line 130); a failed merge ends the job (lines 132-141).
job_merge_files(j) ==
    /\ MayRun(j)
    /\ jobs[j].pc = "merge"
    /\ \E success \in BOOLEAN, w \in EngineWrites :
         LET r == merge_files(jobs[j].all_files, jobs[j].out, <<>>, success)
         IN  /\ jobs' = [jobs EXCEPT
                           ![j].result = r.result,
                           ![j].wrote = w,
                           ![j].pc = IF main_branch(r.result) = "compare"
                                     THEN "compare" ELSE "done"]
             /\ fsys' = IF w.wrote THEN WriteFile(fsys, jobs[j].out, w.size) ELSE fsys
    /\ UNCHANGED <<pc, script, subfile, mode, orchVars>>

\* Job j: compare_sizes (line 131), then the job ends (lines 135-141).
job_compare_sizes(j) ==
    /\ MayRun(j)
    /\ jobs[j].pc = "compare"
    /\ jobs' = [jobs EXCEPT
                  ![j].final = compare_sizes(jobs[j].out, jobs[j].estimated, <<>>, fsys).ret,
                  ![j].pc = "done"]
    /\ UNCHANGED <<fsys, pc, script, subfile, mode, orchVars>>

NextGen ==
    \/ gen_main_local
    \/ gen_main_condor
    \/ run_generated
    \/ \E j \in 1..Len(jobs) : job_gather_files(j)
    \/ \E j \in 1..Len(jobs) : job_estimate_total_size(j)
    \/ \E j \in 1..Len(jobs) : job_merge_files(j)
    \/ \E j \in 1..Len(jobs) : job_compare_sizes(j)

SpecGen == InitGen /\ [][NextGen]_vars

----------------------------------------------------------------------------
(* The claims.                                                             *)

Called(method) == method \in Range(calls)

LogIndexes(text) == {i \in 1..Len(log) : log[i].msg = text}

\* The final positions of main().
AfterEstimate == {"merge", "compare", "failed", "report", "line141", "NameError"}

C1_Success == <<"gather_files", "estimate_total_size", "merge_files", "compare_sizes", "report">>

C1_Failure == <<"gather_files", "estimate_total_size", "merge_files", "report">>

C1_CompareTexts ==
    { "The merged file '{}' has a size of {:.2f} KB.",
      "The difference between the estimated and merged file size is {:.2f} KB.",
      "Failed to obtain the size of the merged file: {}" }

\* C1: in every run of main the phases occur in the order gather_files,
\* estimate_total_size, merge_files, compare_sizes, report; compare_sizes is
\* invoked only after merge_files returned True, and after a failed merge it
\* is never invoked and no size-comparison record is logged.
C1_PhaseOrder ==
    /\ IsPrefix(calls, C1_Success) \/ IsPrefix(calls, C1_Failure)
    /\ Called("compare_sizes") => merge_result = "True"
    /\ (Called("report") /\ merge_result = "True") => Called("compare_sizes")
    /\ merge_result = "False" =>
         /\ ~Called("compare_sizes")
         /\ \A i \in 1..Len(log) : log[i].msg \notin C1_CompareTexts

C1_Witness ==
    /\ merge_result = "False"
    /\ Called("report")
    /\ Len(all_files) >= 2

\* C2: when the merge engine reports failure, main logs the failure and ends
\* normally: no uncaught exception terminates the process.
C2_FailureEndsNormally ==
    merge_result = "False" => pc # "NameError"

----------------------------------------------------------------------------

C3_Entries == fsys[1].entries

C3_N == Cardinality({i \in 1..Len(C3_Entries) : C3_Entries[i].isdir})

C3_Count(lines, text) == Cardinality({i \in 1..Len(lines) : lines[i].text = text})

\* The lines of the given text whose --dir argument names entry e of the root.
C3_LinesFor(lines, text, e) ==
    {i \in 1..Len(lines) : lines[i].text = text /\ Basename(lines[i].args[1]) = e.name}

\* C3: for a storage root with N immediate subdirectories the local script
\* holds exactly N mergeOutput.py invocation lines and the submission file
\* exactly N "arguments" lines and N "queue" lines: one per subdirectory and
\* none for an entry that is not a directory.
C3_OnePerSubdir ==
    /\ mode = "local" =>
         /\ C3_Count(script, INVOKE_TEXT) = C3_N
         /\ \A e \in Range(C3_Entries) :
              Cardinality(C3_LinesFor(script, INVOKE_TEXT, e)) = IF e.isdir THEN 1 ELSE 0
    /\ mode = "condor" =>
         /\ C3_Count(subfile, ARGUMENTS_TEXT) = C3_N
         /\ C3_Count(subfile, "queue") = C3_N
         /\ \A e \in Range(C3_Entries) :
              Cardinality(C3_LinesFor(subfile, ARGUMENTS_TEXT, e)) = IF e.isdir THEN 1 ELSE 0

C3_Witness ==
    /\ mode = "condor"
    /\ C3_N = 2
    /\ \E e \in Range(C3_Entries) : ~e.isdir
    /\ C3_Count(subfile, "queue") = 2
    /\ pc = "generated"

----------------------------------------------------------------------------

C4_LowerChar(c) ==
    IF c = "O" THEN "o" ELSE IF c = "U" THEN "u" ELSE IF c = "T" THEN "t"
    ELSE IF c = "R" THEN "r" ELSE c

C4_Lower(s) == [i \in DOMAIN s |-> C4_LowerChar(s[i])]

C4_EndsWithDotRoot(s) == \E k \in 0..Len(s) : s = SubSeq(s, 1, k) \o <<".", "r", "o", "o", "t">>

C4_Contains(sub, s) == \E a \in 0..Len(s) : \E b \in a..Len(s) : SubSeq(s, a + 1, b) = sub

\* The text of the pattern before its first '*'.
C4_Literal(p) ==
    LET k == CHOOSE k \in 0..Len(p) :
                /\ \A i \in 1..k : p[i] # "*"
                /\ k = Len(p) \/ p[k + 1] = "*"
    IN  SubSeq(p, 1, k)

C4_Qualifies(name) ==
    /\ C4_EndsWithDotRoot(C4_Lower(name))
    /\ C4_Contains(C4_Lower(C4_Literal(mergeFilePattern)), C4_Lower(name))

\* The paths of the plain files in the directories at and below the base directory.
C4_FilesBelowBase ==
    UNION { {Append(fsys[i].root, e.name) : e \in {x \in Range(fsys[i].entries) : ~x.isdir}}
            : i \in {j \in 1..Len(fsys) : IsPrefix(base_dir, fsys[j].root)} }

\* C4: gather_files discovers a file below the base directory, at any depth,
\* if and only if its lower-cased name ends with '.root' and contains the
\* lower-cased text of the pattern before its first '*'; with 'out_*.root'
\* it discovers out_1.root, out_2.root and notout_1.root and not skip.dat.
C4_DiscoveryRule ==
    gather_calls = 1 =>
        LET below == C4_FilesBelowBase
            found == Range(all_files)
        IN  /\ found \subseteq below
            /\ \A f \in below : f \in found <=> C4_Qualifies(Basename(f))
            /\ mergeFilePattern = <<"o", "u", "t", "_", "*", ".", "r", "o", "o", "t">> =>
                 \A f \in below :
                    /\ Basename(f) \in {out_1_root, out_2_root, notout_1_root} => f \in found
                    /\ Basename(f) = skip_dat => f \notin found

C4_Witness ==
    /\ gather_calls = 1
    /\ mergeFilePattern = <<"o", "u", "t", "_", "*", ".", "r", "o", "o", "t">>
    /\ \E f \in Range(all_files) : Basename(f) = notout_1_root /\ Len(f) = Len(base_dir) + 2
    /\ \E f \in Range(all_files) : Basename(f) = out_2_root
    /\ \E f \in C4_FilesBelowBase : Basename(f) = skip_dat

----------------------------------------------------------------------------

\* The size on disk of the file a discovered path names.
C5_SizeOnDisk(path) ==
    LET d == CHOOSE d \in Range(fsys) : d.root = Parent(path)
        e == CHOOSE e \in Range(d.entries) : e.name = Basename(path)
    IN  e.size

\* The size counted for a discovered path: nothing for one whose size could
\* not be read during the estimate.
C5_Reported(path) == IF path \in unreadable THEN 0 ELSE C5_SizeOnDisk(path)

C5_RemoveAt(s, i) == SubSeq(s, 1, i - 1) \o SubSeq(s, i + 1, Len(s))

\* C5 as claimed: estimate_total_size returns the exact sum of the byte sizes
\* of all discovered files, and with one discovered file removed from
\* all_files it returns exactly that file's size less.
C5_SumOfAllSizes ==
    Called("estimate_total_size") =>
        LET sizes == [i \in 1..Len(all_files) |-> C5_SizeOnDisk(all_files[i])]
        IN  /\ estimated_size = SumSeq(sizes)
            /\ \A i \in 1..Len(all_files) :
                 estimate_total_size(C5_RemoveAt(all_files, i), <<>>, fsys, unreadable).total_size
                    = estimated_size - sizes[i]

\* C5 as amended: estimate_total_size returns the exact sum of the byte sizes
\* of the discovered files whose size can be read; with one of them removed
\* from all_files it returns exactly that file's size less, and with a file
\* whose size cannot be read removed it returns the same.
C5_ExactSum ==
    Called("estimate_total_size") =>
        LET sizes == [i \in 1..Len(all_files) |-> C5_Reported(all_files[i])]
        IN  /\ estimated_size = SumSeq(sizes)
            /\ \A i \in 1..Len(all_files) :
                 estimate_total_size(C5_RemoveAt(all_files, i), <<>>, fsys, unreadable).total_size
                    = estimated_size - sizes[i]

C5_Witness ==
    /\ Called("estimate_total_size")
    /\ Len(all_files) >= 3
    /\ \E f \in unreadable : C5_SizeOnDisk(f) = 1000
    /\ estimated_size = 1128

----------------------------------------------------------------------------

C6_Indexes(op) == {i \in 1..Len(engine) : engine[i].op = op}

C6_Added ==
    LET a == SelectSeq(engine, LAMBDA c : c.op = "AddFile")
    IN  [i \in 1..Len(a) |-> a[i].arg]

\* C6: merge_files sets the engine's output path before it adds an input, adds
\* every discovered file in the order of all_files with none skipped, invokes
\* Merge exactly once after all inputs were added, and returns True exactly
\* when the engine reported success.
C6_EngineProtocol ==
    merge_result # "none" =>
        /\ Cardinality(C6_Indexes("OutputFile")) = 1
        /\ \A o \in C6_Indexes("OutputFile") :
             /\ engine[o].arg = output_file_name
             /\ \A a \in C6_Indexes("AddFile") : o < a
        /\ C6_Added = all_files
        /\ C6_Indexes("Merge") = {Len(engine)}
        /\ (merge_result = "True") <=> engine[Len(engine)].ret

C6_Witness ==
    /\ merge_result = "False"
    /\ Len(all_files) >= 3
    /\ Len(engine) = Len(all_files) + 4

----------------------------------------------------------------------------

C7_DiffText == "The difference between the estimated and merged file size is {:.2f} KB."

C7_Diff == compare_result.value - estimated_size

\* The figure the difference record prints: its sign and its hundredths.
C7_Printed == log[CHOOSE i \in LogIndexes(C7_DiffText) : TRUE].args[1]

C7_Compared == Called("compare_sizes") /\ ~compare_result.none

\* Two 1000-byte matching files and an engine that wrote a 1900-byte output.
C7_Scenario ==
    /\ C7_Compared
    /\ Len(all_files) = 2
    /\ unreadable = {}
    /\ \A i \in 1..2 : C5_Reported(all_files[i]) = 1000
    /\ compare_result.value = 1900

\* C7 as claimed: compare_sizes reports the signed difference in bytes: for
\* two 1000-byte files and a 1900-byte output the figure it reports is -100.
C7_ReportsBytes ==
    C7_Scenario => C7_Printed = [neg |-> TRUE, cents |-> 100 * 100]

\* C7 as amended: compare_sizes computes output size minus estimate in bytes
\* and logs it in KB (bytes / 1024) rounded to two decimals, -0.10 KB for two
\* 1000-byte files and a 1900-byte output; it returns the output's size when
\* that can be read and None when it cannot.
C7_ReportsRoundedKB ==
    Called("compare_sizes") =>
        /\ compare_result.none <=> EntriesAt(fsys, output_file_name) = {}
        /\ compare_result.none => LogIndexes(C7_DiffText) = {}
        /\ ~compare_result.none =>
             /\ \A e \in EntriesAt(fsys, output_file_name) : compare_result.value = e.size
             /\ Cardinality(LogIndexes(C7_DiffText)) = 1
             /\ C7_Printed.neg = (C7_Diff < 0)
             /\ LET c == C7_Printed.cents
                    off == Abs(100 * Abs(C7_Diff) - KB * c)
                IN  /\ c >= 0
                    /\ 2 * off <= KB
                    /\ 2 * off = KB => c % 2 = 0
        /\ C7_Scenario =>
             /\ C7_Diff = -100
             /\ C7_Printed = [neg |-> TRUE, cents |-> 10]

C7_Witness ==
    /\ C7_Scenario
    /\ estimated_size = 2000
    /\ C7_Printed = [neg |-> TRUE, cents |-> 10]

----------------------------------------------------------------------------

C8_Subdirs == {e.name : e \in {x \in Range(fsys[1].entries) : x.isdir}}

\* What a job on dir discovers and estimates when no other job runs.
C8_Alone(dir) ==
    LET tree == << [root |-> dir, entries |-> SubdirContents(Basename(dir))] >>
        files == gather_files(
                    [base_dir |-> dir, mergeFilePattern |-> GEN_PATTERN,
                     file_dict |-> <<>>, all_files |-> <<>>, log |-> <<>>], tree).all_files
    IN  [all_files |-> files,
         estimated |-> estimate_total_size(files, <<>>, tree, {}).total_size]

C8_IsDirectory(path) == \E e \in EntriesAt(fsys, path) : e.isdir

\* C8: for storage root R every subdirectory D gets exactly one output path
\* R/D.root in local and in batch mode, distinct subdirectories get distinct
\* output paths, and in any interleaving of the jobs no job's output path is
\* discovered or written by another job: each job discovers and estimates what
\* it does alone, and reads back from its output path what it wrote itself.
C8_JobsIndependent ==
    pc = "running" =>
        /\ Len(jobs) = Cardinality(C8_Subdirs)
        /\ \A D \in C8_Subdirs :
             /\ Cardinality({j \in 1..Len(jobs) : jobs[j].dir = Append(storage_path, D)}) = 1
             /\ \A j \in 1..Len(jobs) :
                  jobs[j].dir = Append(storage_path, D)
                     => jobs[j].out = Append(storage_path, D \o <<".", "r", "o", "o", "t">>)
        /\ \A j, k \in 1..Len(jobs) :
             j # k => /\ jobs[j].out # jobs[k].out
                      /\ jobs[j].out \notin Range(jobs[k].all_files)
        /\ \A j \in 1..Len(jobs) :
             /\ jobs[j].pc # "queued" => jobs[j].all_files = C8_Alone(jobs[j].dir).all_files
             /\ jobs[j].pc \in {"merge", "compare", "done"}
                  => jobs[j].estimated = C8_Alone(jobs[j].dir).estimated
             /\ (jobs[j].wrote.wrote /\ ~C8_IsDirectory(jobs[j].out)) =>
                  /\ \A e \in EntriesAt(fsys, jobs[j].out) : e.size = jobs[j].wrote.size
                  /\ (jobs[j].pc = "done" /\ jobs[j].result = "True")
                       => jobs[j].final = [none |-> FALSE, value |-> jobs[j].wrote.size]

C8_Witness ==
    /\ pc = "running"
    /\ mode = "condor"
    /\ Len(jobs) = 3
    /\ \A j \in 1..Len(jobs) : jobs[j].pc = "done" /\ jobs[j].result = "True" /\ jobs[j].wrote.wrote
    /\ \E j \in 1..Len(jobs) : jobs[j].all_files # <<>>

----------------------------------------------------------------------------

C9_SizeTextKB == "The size of file '{}' is {:.2f} KB."

C9_FailedText == "Failed to get size for file '{}': {}"

C9_Records(text, f) == {i \in LogIndexes(text) : log[i].args[1] = f}

\* The paths of the per-file records of the estimate (size in KB, or failure), in log order.
C9_Visited ==
    LET r == SelectSeq(log, LAMBDA l : l.msg \in {C9_SizeTextKB, C9_FailedText})
    IN  [i \in 1..Len(r) |-> r[i].args[1]]

RECURSIVE C9_SumOver(_)
C9_SumOver(S) ==
    IF S = {} THEN 0
    ELSE LET f == CHOOSE f \in S : TRUE IN C5_Reported(f) + C9_SumOver(S \ {f})

\* C9: a failure to read the size of a discovered file does not abort
\* estimate_total_size: the failure is logged, the loop goes on with the
\* remaining files, every file whose size can be read is counted exactly once
\* in the total, and the function returns normally.
C9_StatFailureNotFatal ==
    Called("estimate_total_size") =>
        /\ pc \in AfterEstimate
        /\ C9_Visited = all_files
        /\ \A f \in Range(all_files) :
             IF f \in unreadable
             THEN Cardinality(C9_Records(C9_FailedText, f)) = 1 /\ C9_Records(C9_SizeTextKB, f) = {}
             ELSE Cardinality(C9_Records(C9_SizeTextKB, f)) = 1 /\ C9_Records(C9_FailedText, f) = {}
        /\ estimated_size = C9_SumOver(Range(all_files) \ unreadable)
        /\ Cardinality(LogIndexes("Estimated total size before merging is {:.2f} KB.")) = 1

C9_Witness ==
    /\ Called("estimate_total_size")
    /\ estimated_size > 0
    /\ \E i, j \in 1..Len(all_files) :
         i < j /\ all_files[i] \in unreadable /\ all_files[j] \notin unreadable

----------------------------------------------------------------------------

C10_Values == Concat([i \in 1..Len(file_dict) |-> file_dict[i][2]])

RECURSIVE C10_Repeat(_, _)
C10_Repeat(s, n) == IF n = 0 THEN <<>> ELSE s \o C10_Repeat(s, n - 1)

C10_WalkIndex(root) == CHOOSE i \in 1..Len(fsys) : fsys[i].root = root

C10_Occurrences(f) == Cardinality({i \in 1..Len(all_files) : all_files[i] = f})

\* C10: after one gather_files call on a fresh instance all_files is the
\* concatenation of the lists of file_dict in directory-walk order, no path
\* occurs in it twice, and no directory without a matching file is a key of
\* file_dict; a further call on the same instance appends every discovered
\* path to all_files again.
C10_GatherAppends ==
    /\ \A i \in 1..Len(file_dict) :
         /\ file_dict[i][2] # <<>>
         /\ \A f \in Range(file_dict[i][2]) : Parent(f) = file_dict[i][1]
         /\ \A j \in 1..Len(file_dict) :
              i < j => C10_WalkIndex(file_dict[i][1]) < C10_WalkIndex(file_dict[j][1])
    /\ \A i, j \in 1..Len(C10_Values) : i # j => C10_Values[i] # C10_Values[j]
    /\ gather_calls = 1 =>
         /\ all_files = C10_Values
         /\ \A f \in Range(all_files) : C10_Occurrences(f) = 1
    /\ all_files = C10_Repeat(C10_Values, gather_calls)
    /\ \A f \in Range(all_files) : C10_Occurrences(f) = gather_calls

C10_Witness ==
    /\ gather_calls = 2
    /\ Len(file_dict) >= 2
    /\ Len(all_files) = 2 * Len(C10_Values)
    /\ \E f \in Range(all_files) : C10_Occurrences(f) = 2

====
